---- MODULE Spec2Model ----
(***************************************************************************)
(* MongoDB -> Neo4j batch integration of src/main.py:                       *)
(* show_integration_page, integrate_mongodb_to_neo4j_specific,             *)
(* process_film_batch_specific and add_project_members_to_film.            *)
(*                                                                         *)
(* A Python string is a sequence of one-element strings ("characters"; a   *)
(* word such as "Drama" stands for one character).  None is the empty      *)
(* tuple and a present optional value x is <<x>>.                          *)
(***************************************************************************)
EXTENDS Integers, Sequences, FiniteSets, TLC

\* ------------------------------------------------------------------ bounds
\* Longest relationship type passed to create_relationship.
MaxRelTypeLen == 3
\* Longest revenue string explored by the normalizer specification.
MaxRevenueLen == 3
\* Longest source collection explored.
MaxDocs == 5
\* batch_size of the import loop (250 at src/main.py:761), scaled down.
BatchSize == 2
\* Invocations of the transaction function that the driver's managed
\* transaction makes for one execute_write before it gives up.
MaxAttempts == 2

\* ---------------------------------------------------------- python values
None == <<>>
Some(x) == <<x>>

NoneV == [t |-> "none"]
StrV(s) == [t |-> "str", s |-> s]
IntV(n) == [t |-> "int", n |-> n]
ListV(l) == [t |-> "list", l |-> l]

\* dict.get(key): the value, or None when the key is missing.
Get(doc, key) == IF key \in DOMAIN doc THEN doc[key] ELSE NoneV

\* Python truthiness of a value.
Truthy(v) ==
    CASE v.t = "none" -> FALSE
      [] v.t = "str"  -> v.s # <<>>
      [] v.t = "int"  -> v.n # 0
      [] v.t = "list" -> v.l # <<>>

Digit(d) == <<"0", "1", "2", "3", "4", "5", "6", "7", "8", "9">>[d + 1]

RECURSIVE NatToStr(_)
NatToStr(n) == IF n < 10 THEN <<Digit(n)>> ELSE NatToStr(n \div 10) \o <<Digit(n % 10)>>

\* str(x) of the values that occur as _id.
PyStr(v) ==
    CASE v.t = "str" -> v.s
      [] v.t = "int" -> IF v.n < 0 THEN <<"-">> \o NatToStr(-v.n) ELSE NatToStr(v.n)
      [] OTHER       -> <<"None">>

DigitValue(c) == CHOOSE d \in 0..9 : Digit(d) = c
IsDigit(c) == \E d \in 0..9 : Digit(d) = c

RECURSIVE DigitsToNat(_)
DigitsToNat(s) ==
    IF s = <<>> THEN 0
    ELSE 10 * DigitsToNat(SubSeq(s, 1, Len(s) - 1)) + DigitValue(s[Len(s)])

RECURSIVE Strip(_)
\* str.strip(): leading and trailing blanks removed.
Strip(s) ==
    IF s = <<>> THEN s
    ELSE IF s[1] = " " THEN Strip(Tail(s))
    ELSE IF s[Len(s)] = " " THEN Strip(SubSeq(s, 1, Len(s) - 1))
    ELSE s

RECURSIVE SplitFrom(_, _, _)
SplitFrom(s, sep, cur) ==
    IF s = <<>> THEN <<cur>>
    ELSE IF s[1] = sep THEN <<cur>> \o SplitFrom(Tail(s), sep, <<>>)
    ELSE SplitFrom(Tail(s), sep, Append(cur, s[1]))

\* str.split(sep): the parts between the separators, empty parts included.
Split(s, sep) == SplitFrom(s, sep, <<>>)

RECURSIVE StripNonEmpty(_)
\* [p.strip() for p in parts if p.strip()]
StripNonEmpty(parts) ==
    IF parts = <<>> THEN <<>>
    ELSE (IF Strip(parts[1]) # <<>> THEN <<Strip(parts[1])>> ELSE <<>>)
         \o StripNonEmpty(Tail(parts))

\* int(x) of a string: an optional sign and digits, blanks around them allowed;
\* None stands for the ValueError.
ParseInt(s) ==
    LET b == Strip(s)
        neg == b # <<>> /\ b[1] = "-"
        d == IF b # <<>> /\ b[1] \in {"-", "+"} THEN Tail(b) ELSE b
    IN IF d # <<>> /\ \A k \in 1..Len(d) : IsDigit(d[k])
       THEN Some(IF neg THEN -DigitsToNat(d) ELSE DigitsToNat(d))
       ELSE None

\* ------------------------------------------------------------- normaliser
RECURSIVE StrEach(_)
\* [str(d) for d in l]
StrEach(l) == IF l = <<>> THEN <<>> ELSE <<PyStr(l[1])>> \o StrEach(Tail(l))

\* int(x) if x is not None else None, None on any exception.
ToInt(v) ==
    CASE v.t = "int" -> Some(v.n)
      [] v.t = "str" -> ParseInt(v.s)
      [] OTHER       -> None

\* Comma-separated string to the list of its trimmed non-empty parts.
CommaList(v) == IF v.t = "str" THEN StripNonEmpty(Split(v.s, ",")) ELSE <<>>

DirectorsList(v) ==
    CASE v.t = "str"  -> StripNonEmpty(Split(v.s, ","))
      [] v.t = "list" -> StripNonEmpty(StrEach(v.l))
      [] OTHER        -> <<>>

IsDesignId(v) ==
    /\ v.t = "str"
    /\ Len(v.s) >= 1
    /\ v.s[1] = "_design/"

\* The query filter {"_id": {"$not": {"$regex": "^_design/"}}}.
QueryFilter(doc) == ~IsDesignId(Get(doc, "_id"))

\* rating: a non-empty string, else None.
Rating(v) == IF v.t = "str" /\ v.s # <<>> THEN Some(v.s) ELSE None

RECURSIVE Remove(_, _)
\* str.replace(c, ''): every occurrence of the character c removed.
Remove(s, c) ==
    IF s = <<>> THEN <<>>
    ELSE (IF s[1] = c THEN <<>> ELSE <<s[1]>>) \o Remove(Tail(s), c)

UpperChar(c) == CASE c = "m" -> "M" [] c = "k" -> "K" [] OTHER -> c

\* str.upper()
Upper(s) == [k \in 1..Len(s) |-> UpperChar(s[k])]

\* A float as the decimal m / 10^s without trailing zeros in the fraction
\* (rounding to binary is left out).
RECURSIVE Float(_, _)
Float(m, s) ==
    IF s > 0 /\ m % 10 = 0 THEN Float(m \div 10, s - 1)
    ELSE [t |-> "float", m |-> m, s |-> s]

\* float(x) of a string of blanks, signs, digits, points and other characters:
\* blanks around, an optional sign, digits with at most one point and at least
\* one digit; None stands for the ValueError.
ParseFloat(str) ==
    LET b == Strip(str)
        neg == b # <<>> /\ b[1] = "-"
        d == IF b # <<>> /\ b[1] \in {"-", "+"} THEN Tail(b) ELSE b
        points == {k \in 1..Len(d) : d[k] = "."}
        digits == Remove(d, ".")
        scale == IF points = {} THEN 0 ELSE Len(d) - (CHOOSE k \in points : TRUE)
    IN IF /\ digits # <<>>
          /\ \A k \in 1..Len(digits) : IsDigit(digits[k])
          /\ Cardinality(points) <= 1
       THEN Some(Float(IF neg THEN -DigitsToNat(digits) ELSE DigitsToNat(digits), scale))
       ELSE None

\* float * int
Times(f, k) == Float(f.m * k, f.s)

\* Fault: the revenue is read from the key "Revenue".
revenue_field_plain == "Revenue"

\* The key of the revenue in a document.
revenue_field_hardcoded == "Revenue (Millions)"

\* The body of the try block of the revenue: the value, or the exception raised.
RevenueConv(v) ==
    CASE v.t = "int" -> [exc |-> "none", val |-> Some(v)]
      [] v.t = "str" ->
           LET cleaned == Remove(Remove(v.s, "$"), ",")
               isM == \E k \in 1..Len(cleaned) : Upper(cleaned)[k] = "M"
               isK == \E k \in 1..Len(cleaned) : Upper(cleaned)[k] = "K"
               multiplier == IF isM THEN 1000000 ELSE IF isK THEN 1000 ELSE 1
               base == IF isM THEN Remove(Upper(cleaned), "M")
                       ELSE IF isK THEN Remove(Upper(cleaned), "K")
                       ELSE cleaned
               f == ParseFloat(base)
           IN IF f = None THEN [exc |-> "ValueError", val |-> None]
              ELSE [exc |-> "none", val |-> Some(Times(f[1], multiplier))]
      [] OTHER -> [exc |-> "none", val |-> None]

\* Fault: the except clause of the revenue lets the ValueError of float() pass.
RevenueCaughtTypeErrorOnly == {"TypeError"}

\* except (ValueError, TypeError): revenue = None
RevenueCaught == {"ValueError", "TypeError"}

Revenue(v) == IF RevenueConv(v).exc \in RevenueCaught THEN None ELSE RevenueConv(v).val

\* An exception of the conversions leaves the loop body.
NormalizeRaises(doc) ==
    RevenueConv(Get(doc, revenue_field_hardcoded)).exc \notin RevenueCaught \cup {"none"}

\* mongo_id = str(_id) if _id else None
MongoId(doc) == IF Truthy(Get(doc, "_id")) THEN Some(PyStr(Get(doc, "_id"))) ELSE None

\* Fault: the test of the title is missing.
SkipsIdOnly(doc) ==
    \/ IsDesignId(Get(doc, "_id"))
    \/ MongoId(doc) = None

\* The two tests of the loop that end an iteration with skipped_count += 1.
Skips(doc) ==
    \/ IsDesignId(Get(doc, "_id"))
    \/ ~Truthy(Get(doc, "title"))
    \/ MongoId(doc) = None

\* film_data_for_neo4j of a document that is not skipped.
FilmData(doc) ==
    LET directors_list == DirectorsList(Get(doc, "Director"))
    IN [mongoId      |-> MongoId(doc)[1],
        title        |-> Get(doc, "title"),
        year         |-> ToInt(Get(doc, "year")),
        votes        |-> ToInt(Get(doc, "Votes")),
        rating       |-> Rating(Get(doc, "rating")),
        revenue      |-> Revenue(Get(doc, revenue_field_hardcoded)),
        director     |-> IF directors_list # <<>> THEN Some(directors_list[1]) ELSE None,
        allDirectors |-> directors_list,
        actors       |-> CommaList(Get(doc, "Actors")),
        genres       |-> CommaList(Get(doc, "genre"))]

\* ------------------------------------------------------------ graph store
\* A node has the identity the store gave it; Film nodes carry the scalar
\* properties, Actor, Director and Genre nodes a name.  A relationship has an
\* identity, a type and the identities of its start and end node.
EmptyGraph == [films |-> {}, actors |-> {}, directors |-> {}, genres |-> {},
               rels |-> {}, next |-> 1]

FilmProps(fd) == [title |-> fd.title, year |-> fd.year, votes |-> fd.votes,
                  rating |-> fd.rating, director |-> fd.director, revenue |-> fd.revenue]

\* Fault: a matched film is detached from its relationships before it is set.
MergeFilmDetached(g, fd) ==
    IF \E f \in g.films : f.mongoId = fd.mongoId
    THEN [g EXCEPT !.films =
            {IF f.mongoId = fd.mongoId
             THEN [id |-> f.id, mongoId |-> f.mongoId, props |-> FilmProps(fd)]
             ELSE f : f \in g.films},
                   !.rels = {r \in @ : \A f \in g.films :
                                f.mongoId = fd.mongoId => r.src # f.id /\ r.dst # f.id}]
    ELSE [g EXCEPT !.films = @ \cup {[id |-> g.next, mongoId |-> fd.mongoId,
                                      props |-> FilmProps(fd)]},
                   !.next = @ + 1]

\* MERGE (f:Film {mongoId: film_data.mongoId}) ON CREATE SET ... ON MATCH SET ...
MergeFilm(g, fd) ==
    IF \E f \in g.films : f.mongoId = fd.mongoId
    THEN [g EXCEPT !.films =
            {IF f.mongoId = fd.mongoId
             THEN [id |-> f.id, mongoId |-> f.mongoId, props |-> FilmProps(fd)]
             ELSE f : f \in g.films}]
    ELSE [g EXCEPT !.films = @ \cup {[id |-> g.next, mongoId |-> fd.mongoId,
                                      props |-> FilmProps(fd)]},
                   !.next = @ + 1]

\* Fault: CREATE where the query has MERGE: a node is made even when one matches.
CreateNamed(g, label, name) ==
    [g EXCEPT ![label] = @ \cup {[id |-> g.next, name |-> name]}, !.next = @ + 1]

\* MERGE (n:<label> {name: name}) for the labels keyed by name.
MergeNamed(g, label, name) ==
    IF \E n \in g[label] : n.name = name
    THEN g
    ELSE [g EXCEPT ![label] = @ \cup {[id |-> g.next, name |-> name]},
                   !.next = @ + 1]

\* Fault: CREATE where the query has MERGE: a relationship is made even when one exists.
CreateRel(g, type, a, b) ==
    [g EXCEPT !.rels = @ \cup {[id |-> g.next, type |-> type, src |-> a, dst |-> b]},
              !.next = @ + 1]

\* MERGE (a)-[:type]->(b) for bound nodes a and b.
MergeRel(g, type, a, b) ==
    IF \E r \in g.rels : r.type = type /\ r.src = a /\ r.dst = b
    THEN g
    ELSE [g EXCEPT !.rels = @ \cup {[id |-> g.next, type |-> type, src |-> a, dst |-> b]},
                   !.next = @ + 1]

FilmIds(g, mongoId) == {f.id : f \in {x \in g.films : x.mongoId = mongoId}}
NamedIds(g, label, name) == {n.id : n \in {x \in g[label] : x.name = name}}

RECURSIVE MergeRelsFrom(_, _, _, _)
\* One MERGE of a relationship from every node of srcs to the node b.
MergeRelsFrom(g, type, srcs, b) ==
    IF srcs = {} THEN g
    ELSE LET a == CHOOSE x \in srcs : \A y \in srcs : x <= y
         IN MergeRelsFrom(MergeRel(g, type, a, b), type, srcs \ {a}, b)

RECURSIVE MergeRelsTo(_, _, _, _)
\* One MERGE of a relationship from the node a to every node of dsts.
MergeRelsTo(g, type, a, dsts) ==
    IF dsts = {} THEN g
    ELSE LET b == CHOOSE x \in dsts : \A y \in dsts : x <= y
         IN MergeRelsTo(MergeRel(g, type, a, b), type, a, dsts \ {b})

RECURSIVE MergeRelsAll(_, _, _, _)
MergeRelsAll(g, type, srcs, dsts) ==
    IF srcs = {} THEN g
    ELSE LET a == CHOOSE x \in srcs : \A y \in srcs : x <= y
         IN MergeRelsAll(MergeRelsTo(g, type, a, dsts), type, srcs \ {a}, dsts)

\* [x IN list WHERE x IS NOT NULL AND x <> '']
RECURSIVE NonEmpty(_)
NonEmpty(l) ==
    IF l = <<>> THEN <<>>
    ELSE (IF l[1] # <<>> THEN <<l[1]>> ELSE <<>>) \o NonEmpty(Tail(l))

RECURSIVE MergeGenres(_, _, _)
\* FOREACH (genre_name IN ... | MERGE (g_node:Genre) MERGE (f)-[:HAS_GENRE]->(g_node))
MergeGenres(g, fids, names) ==
    IF names = <<>> THEN g
    ELSE LET g1 == MergeNamed(g, "genres", names[1])
             gid == CHOOSE x \in NamedIds(g1, "genres", names[1]) : TRUE
             g2 == MergeRelsFrom(g1, "HAS_GENRE", fids, gid)
         IN MergeGenres(g2, fids, Tail(names))

RECURSIVE MergeNamedAll(_, _, _)
\* UNWIND names AS name MERGE (n:<label> {name: name})
MergeNamedAll(g, label, names) ==
    IF names = <<>> THEN g
    ELSE MergeNamedAll(MergeNamed(g, label, names[1]), label, Tail(names))

IdsOfNames(g, label, names) ==
    UNION {NamedIds(g, label, names[k]) : k \in 1..Len(names)}

\* Fault: the actors are unwound in the main query, so a film without actors
\* has no row left for the clauses that follow.
UpsertFilmRowLost(g, fd) ==
    LET g1 == MergeFilm(g, fd)
        fids == FilmIds(g1, fd.mongoId)
        g2 == MergeGenres(g1, fids, NonEmpty(fd.genres))
        g3 == MergeNamedAll(g2, "actors", NonEmpty(fd.actors))
        filmActors == IdsOfNames(g3, "actors", NonEmpty(fd.actors))
        g4 == MergeRelsAll(g3, "ACTED_IN", filmActors, fids)
        g5 == MergeNamedAll(g4, "directors", NonEmpty(fd.allDirectors))
        filmDirectors == IdsOfNames(g5, "directors", NonEmpty(fd.allDirectors))
        g6 == MergeRelsAll(g5, "DIRECTED", filmDirectors, fids)
    IN IF NonEmpty(fd.actors) = <<>> THEN g2
       ELSE MergeRelsAll(g6, "WORKED_WITH", filmDirectors, filmActors)

\* The rows of the query for one film_data of the batch.
UpsertFilm(g, fd) ==
    LET g1 == MergeFilm(g, fd)
        fids == FilmIds(g1, fd.mongoId)
        g2 == MergeGenres(g1, fids, NonEmpty(fd.genres))
        g3 == MergeNamedAll(g2, "actors", NonEmpty(fd.actors))
        filmActors == IdsOfNames(g3, "actors", NonEmpty(fd.actors))
        g4 == MergeRelsAll(g3, "ACTED_IN", filmActors, fids)
        g5 == MergeNamedAll(g4, "directors", NonEmpty(fd.allDirectors))
        filmDirectors == IdsOfNames(g5, "directors", NonEmpty(fd.allDirectors))
        g6 == MergeRelsAll(g5, "DIRECTED", filmDirectors, fids)
    IN MergeRelsAll(g6, "WORKED_WITH", filmDirectors, filmActors)

RECURSIVE process_film_batch_specific(_, _)
\* UNWIND $films AS film_data ...: the query applied to the transaction's graph.
process_film_batch_specific(g, films_batch) ==
    IF films_batch = <<>> THEN g
    ELSE CHOOSE r \in {process_film_batch_specific(g1, Tail(films_batch)) :
                          g1 \in {UpsertFilm(g, films_batch[1])}} : TRUE

RECURSIVE MergeMembers(_, _, _)
MergeMembers(g, fid, member_names) ==
    IF member_names = <<>> THEN g
    ELSE LET g1 == MergeNamed(g, "actors", member_names[1])
             g2 == MergeRelsFrom(g1, "PART_OF_PROJECT_TEAM",
                                 NamedIds(g1, "actors", member_names[1]), fid)
         IN MergeMembers(g2, fid, Tail(member_names))

RECURSIVE LinkFilms(_, _, _)
LinkFilms(g, fids, member_names) ==
    IF fids = {} THEN g
    ELSE LET f == CHOOSE x \in fids : \A y \in fids : x <= y
         IN LinkFilms(MergeMembers(g, f, member_names), fids \ {f}, member_names)

\* Fault: the MATCH has no title, every film is linked.
add_project_members_to_all(g, member_names, film_title) ==
    LinkFilms(g, {f.id : f \in g.films}, member_names)

\* Fault: the members are merged before the MATCH of the film.
add_project_members_merged_first(g, member_names, film_title) ==
    LET g1 == MergeNamedAll(g, "actors", member_names)
        matched == {f.id : f \in {x \in g1.films :
                        x.props.title.t = "str" /\ x.props.title.s = film_title}}
    IN LinkFilms(g1, matched, member_names)

\* MATCH (f:Film {title: $film_title}) WITH f UNWIND $member_names AS member_name
\* MERGE (p:Actor {name: member_name}) MERGE (p)-[:PART_OF_PROJECT_TEAM]->(f)
add_project_members_to_film(g, member_names, film_title) ==
    LET matched == {f.id : f \in {x \in g.films :
                        x.props.title.t = "str" /\ x.props.title.s = film_title}}
    IN LinkFilms(g, matched, member_names)

\* ------------------------------------------------------------------ state
VARIABLES
    source,                \* the documents of the MongoDB collection, in natural order
    graph,                 \* the committed content of the Neo4j database
    pc,                    \* position of the page and of the integration function
    project_members,       \* argument of integrate_mongodb_to_neo4j_specific
    target_film_title,     \* argument of integrate_mongodb_to_neo4j_specific
    processed_count,
    skipped_count,
    total_docs_estimated,
    films_cursor,          \* the documents the cursor yields
    consumed,              \* documents taken from the cursor; the loop's i is consumed - 1
    batch,
    status,                \* what status_placeholder shows last
    constraint_warning,    \* st.warning of the constraint creation was shown
    constraints_created,   \* CREATE CONSTRAINT statements of this run that did not raise
    members_status,        \* what the linker step showed
    page_message,          \* what show_integration_page shows after the call
    tx_calls,              \* invocations of the transaction function for the batch in flight
    submitted,             \* history: the batches handed to execute_write in this run
    committed,             \* history: the batches whose transaction committed in this run
    outcome,               \* history: how the import loop of this run ended
    rel_type,              \* argument of create_relationship
    rel_pc,                \* create_relationship: not called, raised or returned
    rel_error,             \* the exception create_relationship raised
    rel_sent,              \* queries create_relationship sent to the session
    rel_result             \* what create_relationship returned

\* The state of the integration page and of the import.
mainvars == <<source, graph, pc, project_members, target_film_title, processed_count,
              skipped_count, total_docs_estimated, films_cursor, consumed, batch, status,
              constraint_warning, constraints_created, members_status, page_message,
              tx_calls, submitted, committed, outcome>>

\* The state of a call of create_relationship.
relvars == <<rel_type, rel_pc, rel_error, rel_sent, rel_result>>

vars == <<source, graph, pc, project_members, target_film_title, processed_count,
          skipped_count, total_docs_estimated, films_cursor, consumed, batch, status,
          constraint_warning, constraints_created, members_status, page_message, tx_calls, submitted,
          committed, outcome, rel_type, rel_pc, rel_error, rel_sent, rel_result>>

\* ------------------------------------------------------- explored inputs
S(c) == StrV(<<c>>)

\* The documents a collection is drawn from, in insertion order.
Catalogue ==
    << [_id |-> S("1"), title |-> S("X"), year |-> StrV(<<"1", "9", "9", "9">>),
        Director |-> StrV(<<"A", ",", " ", "B">>), Actors |-> S("C"),
        genre |-> S("Drama")],
       [_id |-> S("4"), Director |-> S("A"), Actors |-> S("C")],
       [_id |-> S("2"), title |-> S("X"), Director |-> ListV(<<S("A")>>),
        Actors |-> StrV(<<"C", ",", "D", ",">>)],
       [_id |-> StrV(<<"_design/", "v">>), title |-> S("X")],
       [_id |-> IntV(1), title |-> S("Y"), year |-> IntV(2001), Actors |-> S("D"),
        genre |-> StrV(<<" ", "Drama">>)],
       [_id |-> S("3"), title |-> S("W"), year |-> S("x"),
        Director |-> ListV(<<S("B"), IntV(7), S(" ")>>), Actors |-> IntV(5),
        genre |-> StrV(<<"Drama", ",", "Noir">>)],
       [_id |-> IntV(0), title |-> S("Z")] >>

RECURSIVE Pick(_, _)
\* The documents of the catalogue at the positions of the set idx, in order.
Pick(idx, from) ==
    IF from > Len(Catalogue) THEN <<>>
    ELSE (IF from \in idx THEN <<Catalogue[from]>> ELSE <<>>) \o Pick(idx, from + 1)

Sources == {Pick(idx, 1) : idx \in {x \in SUBSET (1..Len(Catalogue)) : Cardinality(x) <= MaxDocs}}

MemberLists == {<<>>, << <<"M">>, <<"C">> >>}
Titles == {<<>>, <<"X">>, <<"U">>}
Errors == {"ServiceUnavailable", "ClientError"}
Retryable(e) == e = "ServiceUnavailable"

\* --------------------------------------------------------------- messages
Msg(kind, text) == [kind |-> kind, text |-> text]
NoMsg == Msg("none", <<>>)

\* f"Lot traité. Total : {processed_count}/{total_docs_estimated}"
BatchDoneMsg(p, t) ==
    Msg("info", <<"Lot traité. Total : ">> \o NatToStr(p) \o <<"/">> \o NatToStr(t))

\* f"Erreur traitement lot Neo4j: {e}"
BatchErrorMsg(e) == Msg("error", <<"Erreur traitement lot Neo4j: ", e>>)

\* f"Intégration terminée. {processed_count} films traités, {skipped_count} ignorés."
FinalMsg(p, k) ==
    Msg("success", <<"Intégration terminée. ">> \o NatToStr(p) \o <<" films traités, ">>
                   \o NatToStr(k) \o <<" ignorés.">>)

\* f"Traitement de {total_docs_estimated} documents..."
StartMsg(t) == Msg("status", <<"Traitement de ">> \o NatToStr(t) \o <<" documents...">>)

\* f"Erreur inattendue intégration: {e}"
UnexpectedMsg(e) == Msg("error", <<"Erreur inattendue intégration: ", e>>)

\* ------------------------------------------------------------ operations
\* create_relationship has not been called.
NotCalled ==
    /\ rel_type = <<>>
    /\ rel_pc = "idle"
    /\ rel_error = "none"
    /\ rel_sent = 0
    /\ rel_result = None

Init ==
    /\ source \in Sources
    /\ graph = EmptyGraph
    /\ pc = "page"
    /\ project_members = <<>>
    /\ target_film_title = <<>>
    /\ processed_count = 0
    /\ skipped_count = 0
    /\ total_docs_estimated = 0
    /\ films_cursor = <<>>
    /\ consumed = 0
    /\ batch = <<>>
    /\ status = NoMsg
    /\ constraint_warning = FALSE
    /\ constraints_created = 0
    /\ members_status = "none"
    /\ page_message = "none"
    /\ tx_calls = 0
    /\ submitted = <<>>
    /\ committed = <<>>
    /\ outcome = "none"
    /\ NotCalled

\* The state of a run at the entry of integrate_mongodb_to_neo4j_specific.
EnterRun(members, title) ==
    /\ project_members' = members
    /\ target_film_title' = title
    /\ processed_count' = 0
    /\ skipped_count' = 0
    /\ total_docs_estimated' = 0
    /\ films_cursor' = <<>>
    /\ consumed' = 0
    /\ batch' = <<>>
    /\ status' = NoMsg
    /\ constraint_warning' = FALSE
    /\ constraints_created' = 0
    /\ members_status' = "none"
    /\ tx_calls' = 0
    /\ submitted' = <<>>
    /\ committed' = <<>>
    /\ outcome' = "running"

\* The button of show_integration_page with a film title: the integration is called.
ClickIntegrate ==
    /\ pc = "page"
    /\ \E members \in MemberLists, title \in Titles \ {<<>>} : EnterRun(members, title)
    /\ page_message' = "none"
    /\ pc' = "constraints"
    /\ UNCHANGED <<source, graph>>
    /\ UNCHANGED relvars

\* The button without a film title: st.error and return, nothing is integrated.
ClickWithoutTitle ==
    /\ pc = "page"
    /\ page_message' = "error"
    /\ UNCHANGED <<source, graph, pc, project_members, target_film_title, processed_count,
                   skipped_count, total_docs_estimated, films_cursor, consumed, batch,
                   status, constraint_warning, constraints_created, members_status, tx_calls, submitted,
                   committed, outcome>>
    /\ UNCHANGED relvars

\* The uniqueness constraints of the four session.run statements, in order.
Constraints == <<"Film.mongoId", "Actor.name", "Director.name", "Genre.name">>

\* Statements that were run when k of them returned: the one that raised is
\* the last one run, the statements after it are not reached.
Attempted(k) == IF k < Len(Constraints) THEN k + 1 ELSE Len(Constraints)

\* Fault: a failed constraint creation ends the run.
AfterConstraintsFatal(failed) == IF failed THEN "returned" ELSE "extract"

\* Where the function goes on after the try block of the constraints: its
\* except clause warns and falls through.
AfterConstraints(failed) == "extract"

\* The four CREATE CONSTRAINT statements in one try block: k of them return,
\* and when k < 4 the next one raises and the except clause shows the warning.
CreateConstraints ==
    /\ pc = "constraints"
    /\ \E k \in 0..Len(Constraints) :
          /\ constraints_created' = k
          /\ constraint_warning' = (k < Len(Constraints))
          /\ pc' = AfterConstraints(k < Len(Constraints))
    /\ UNCHANGED <<source, graph, project_members, target_film_title, processed_count,
                   skipped_count, total_docs_estimated, films_cursor, consumed, batch,
                   status, members_status, page_message, tx_calls, submitted, committed,
                   outcome>>
    /\ UNCHANGED relvars

RECURSIVE Filter(_)
\* The documents of the collection that match the query filter, in order.
Filter(docs) ==
    IF docs = <<>> THEN <<>>
    ELSE (IF QueryFilter(docs[1]) THEN <<docs[1]>> ELSE <<>>) \o Filter(Tail(docs))

\* count_documents(query_filter), find(query_filter, projection), batch = [].
Extract ==
    /\ pc = "extract"
    /\ total_docs_estimated' = Len(Filter(source))
    /\ films_cursor' = Filter(source)
    /\ batch' = <<>>
    /\ consumed' = 0
    /\ status' = StartMsg(total_docs_estimated')
    /\ pc' = "loop"
    /\ UNCHANGED <<source, graph, project_members, target_film_title, processed_count,
                   skipped_count, constraint_warning, constraints_created, members_status, page_message,
                   tx_calls, submitted, committed, outcome>>
    /\ UNCHANGED relvars

\* An exception outside the batch handler (the MongoDB connection, the count):
\* the outer except clause shows it and the function returns.
ExtractFails ==
    /\ pc = "extract"
    /\ \E e \in Errors : status' = UnexpectedMsg(e)
    /\ outcome' = "unexpected_error"
    /\ pc' = "returned"
    /\ UNCHANGED <<source, graph, project_members, target_film_title, processed_count,
                   skipped_count, total_docs_estimated, films_cursor, consumed, batch,
                   constraint_warning, constraints_created, members_status, page_message, tx_calls, submitted,
                   committed>>
    /\ UNCHANGED relvars

\* Fault: the test of the last index is missing.
FlushWhenFull(len, i, total) == len >= BatchSize

\* Fault: the buffer is flushed when it exceeds batch_size.
FlushAboveSize(len, i, total) == len > BatchSize \/ (total > 0 /\ i = total - 1)

\* len(batch) >= batch_size or (total_docs_estimated > 0 and i == total_docs_estimated - 1)
FlushDue(len, i, total) == len >= BatchSize \/ (total > 0 /\ i = total - 1)

\* Fault: the record is not in the buffer when the flush test is made.
BatchAppendLost(films_batch, film) == films_batch

\* batch.append(film_data_for_neo4j)
BatchAppend(films_batch, film) == Append(films_batch, film)

\* One iteration of the loop up to the test that opens the transaction.
LoopIteration ==
    /\ pc = "loop"
    /\ consumed < Len(films_cursor)
    /\ LET i == consumed
           film_doc == films_cursor[i + 1]
       IN /\ consumed' = consumed + 1
          /\ IF Skips(film_doc)
             THEN /\ skipped_count' = skipped_count + 1
                  /\ UNCHANGED <<batch, pc, submitted, tx_calls, status, outcome>>
             ELSE IF NormalizeRaises(film_doc)
             THEN /\ status' = UnexpectedMsg("ValueError")
                  /\ outcome' = "unexpected_error"
                  /\ pc' = "returned"
                  /\ UNCHANGED <<batch, skipped_count, submitted, tx_calls>>
             ELSE /\ batch' = BatchAppend(batch, FilmData(film_doc))
                  /\ skipped_count' = skipped_count
                  /\ UNCHANGED <<status, outcome>>
                  /\ IF FlushDue(Len(batch'), i, total_docs_estimated)
                     THEN /\ pc' = "write"
                          /\ submitted' = Append(submitted, batch')
                          /\ tx_calls' = 0
                     ELSE UNCHANGED <<pc, submitted, tx_calls>>
    /\ UNCHANGED <<source, graph, project_members, target_film_title, processed_count,
                   total_docs_estimated, films_cursor, constraint_warning,
                   constraints_created, members_status, page_message, committed>>
    /\ UNCHANGED relvars

\* The managed transaction ends an attempt: what the database holds afterwards.
Commit(g, tx_graph) == tx_graph
\* Fault: a failed transaction keeps what it had written.
RollbackKeepsWrites(g, tx_graph) == tx_graph
Rollback(g, tx_graph) == g

\* The graph of a transaction in which the query failed after k films.
Partial(g, films_batch, k) == process_film_batch_specific(g, SubSeq(films_batch, 1, k))

\* Fault: the counter counts batches.
CountBatches(count, films_batch) == count + 1

\* processed_count += len(batch)
CountProcessed(count, films_batch) == count + Len(films_batch)

\* execute_write: the transaction function runs and the transaction commits.
WriteCommits ==
    /\ pc = "write"
    /\ tx_calls' = tx_calls + 1
    /\ graph' = Commit(graph, process_film_batch_specific(graph, batch))
    /\ processed_count' = CountProcessed(processed_count, batch)
    /\ status' = BatchDoneMsg(processed_count', total_docs_estimated)
    /\ committed' = Append(committed, batch)
    /\ batch' = <<>>
    /\ pc' = "loop"
    /\ UNCHANGED <<source, project_members, target_film_title, skipped_count,
                   total_docs_estimated, films_cursor, consumed, constraint_warning, constraints_created,
                   members_status, page_message, submitted, outcome>>
    /\ UNCHANGED relvars

\* execute_write: an attempt ends with a retryable error; the driver rolls the
\* transaction back and calls the transaction function again.
WriteRetries ==
    /\ pc = "write"
    /\ tx_calls + 1 < MaxAttempts
    /\ tx_calls' = tx_calls + 1
    /\ \E k \in 0..(Len(batch) - 1) : graph' = Rollback(graph, Partial(graph, batch, k))
    /\ UNCHANGED <<source, pc, project_members, target_film_title, processed_count,
                   skipped_count, total_docs_estimated, films_cursor, consumed, batch,
                   status, constraint_warning, constraints_created, members_status, page_message, submitted,
                   committed, outcome>>
    /\ UNCHANGED relvars

\* Fault: the except clause shows the error and the loop goes on.
BatchFailedContinues(e) ==
    /\ status' = BatchErrorMsg(e)
    /\ outcome' = "batch_failed"
    /\ pc' = "loop"

\* Fault: the except clause shows the error and the batch is written again.
BatchFailedRetries(e) ==
    /\ status' = BatchErrorMsg(e)
    /\ outcome' = "batch_failed"
    /\ pc' = "write"

\* Fault: the except clause shows the error and falls through to the linker.
BatchFailedThenMembers(e) ==
    /\ status' = BatchErrorMsg(e)
    /\ outcome' = "batch_failed"
    /\ pc' = "members"

\* The except clause of the batch: what is shown, and the return.
BatchFailed(e) ==
    /\ status' = BatchErrorMsg(e)
    /\ outcome' = "batch_failed"
    /\ pc' = "returned"

\* execute_write raises: an error that is not retried, or a retryable one when
\* the driver has stopped retrying.  The transaction is rolled back.
WriteFails ==
    /\ pc = "write"
    /\ tx_calls' = tx_calls + 1
    /\ \E k \in 0..(Len(batch) - 1) : graph' = Rollback(graph, Partial(graph, batch, k))
    /\ \E e \in Errors :
          /\ Retryable(e) => tx_calls' = MaxAttempts
          /\ BatchFailed(e)
    /\ UNCHANGED <<source, project_members, target_film_title, processed_count,
                   skipped_count, total_docs_estimated, films_cursor, consumed, batch,
                   constraint_warning, constraints_created, members_status, page_message, submitted,
                   committed>>
    /\ UNCHANGED relvars

\* The cursor is exhausted: the final message.
LoopEnds ==
    /\ pc = "loop"
    /\ consumed = Len(films_cursor)
    /\ status' = FinalMsg(processed_count, skipped_count)
    /\ outcome' = "completed"
    /\ pc' = "members"
    /\ UNCHANGED <<source, graph, project_members, target_film_title, processed_count,
                   skipped_count, total_docs_estimated, films_cursor, consumed, batch,
                   constraint_warning, constraints_created, members_status, page_message, tx_calls, submitted,
                   committed>>
    /\ UNCHANGED relvars

\* if project_members and target_film_title
LinkerDue == project_members # <<>> /\ target_film_title # <<>>

\* The linker transaction commits.
MembersAdded ==
    /\ pc = "members"
    /\ LinkerDue
    /\ graph' = Commit(graph, add_project_members_to_film(graph, project_members,
                                                         target_film_title))
    /\ members_status' = "complete"
    /\ pc' = "returned"
    /\ UNCHANGED <<source, project_members, target_film_title, processed_count,
                   skipped_count, total_docs_estimated, films_cursor, consumed, batch,
                   status, constraint_warning, constraints_created, page_message, tx_calls, submitted,
                   committed, outcome>>
    /\ UNCHANGED relvars

\* The linker transaction fails and is rolled back; its except clause shows it.
MembersFail ==
    /\ pc = "members"
    /\ LinkerDue
    /\ graph' = Rollback(graph, add_project_members_to_film(graph, project_members,
                                                           target_film_title))
    /\ members_status' = "error"
    /\ pc' = "returned"
    /\ UNCHANGED <<source, project_members, target_film_title, processed_count,
                   skipped_count, total_docs_estimated, films_cursor, consumed, batch,
                   status, constraint_warning, constraints_created, page_message, tx_calls, submitted,
                   committed, outcome>>
    /\ UNCHANGED relvars

\* else: st.info("Ajout membres projet ignoré.")
MembersIgnored ==
    /\ pc = "members"
    /\ ~LinkerDue
    /\ members_status' = "ignored"
    /\ pc' = "returned"
    /\ UNCHANGED <<source, graph, project_members, target_film_title, processed_count,
                   skipped_count, total_docs_estimated, films_cursor, consumed, batch,
                   status, constraint_warning, constraints_created, page_message, tx_calls, submitted,
                   committed, outcome>>
    /\ UNCHANGED relvars

\* What show_integration_page shows when the call returns without an exception.
AfterCall == "success"

\* The call returns to show_integration_page.
Return ==
    /\ pc = "returned"
    /\ page_message' = AfterCall
    /\ pc' = "page"
    /\ UNCHANGED <<source, graph, project_members, target_film_title, processed_count,
                   skipped_count, total_docs_estimated, films_cursor, consumed, batch,
                   status, constraint_warning, constraints_created, members_status, tx_calls, submitted,
                   committed, outcome>>
    /\ UNCHANGED relvars

\* ------------------------------------- inputs of the normalizer specification
With(doc, key, v) == (key :> v) @@ doc

Base == [_id |-> S("1"), title |-> S("X")]
Follower == [_id |-> S("2"), title |-> S("Y"), Actors |-> S("C")]

\* The raw record of the end-to-end scenario, and the same record with the
\* revenue under the key that the projection reads.
ScenarioDoc ==
    [_id |-> S("1"), title |-> S("X"), year |-> StrV(<<"1", "9", "9", "9">>),
     Director |-> StrV(<<"A", ",", " ", "B">>), Actors |-> S("C"), genre |-> S("Drama"),
     Revenue |-> StrV(<<"$", "1", ".", "5", "M">>)]
ScenarioDocMillions ==
    With([k \in DOMAIN ScenarioDoc \ {"Revenue"} |-> ScenarioDoc[k]],
         "Revenue (Millions)", ScenarioDoc["Revenue"])

\* A record whose optional fields are all malformed.
MalformedDoc ==
    With([_id |-> S("1"), title |-> S("X"), year |-> S("x"), Votes |-> ListV(<<>>),
          rating |-> IntV(3), Director |-> IntV(5), Actors |-> IntV(5), genre |-> IntV(0)],
         "Revenue (Millions)", S("$"))

RevenueChars == {"$", ",", ".", "1", "M", "k"}
RevenueStrings == UNION {[1..n -> RevenueChars] : n \in 0..MaxRevenueLen}

TitleValues == {NoneV, StrV(<<>>), IntV(0), ListV(<<>>), S(" "), IntV(5)}
IdValues == {NoneV, StrV(<<>>), IntV(0), IntV(12)}
NumberValues == {NoneV, IntV(1999), StrV(<<"1", "9", "9", "9">>), StrV(<<" ", "7">>),
                 StrV(<<"-", "3">>), S("x"), StrV(<<>>), ListV(<<>>)}
RatingValues == {NoneV, S("PG"), StrV(<<>>), IntV(3)}
MultiValues == {NoneV, S("A"), StrV(<<"A", ",", " ", "B">>), StrV(<<",", " ">>),
                ListV(<<S("A"), StrV(<<" ", "B">>), StrV(<<>>), IntV(7)>>), ListV(<<>>),
                IntV(5)}
RevenueValues == {NoneV, IntV(7), ListV(<<>>)}

FieldDocs ==
    {With(Base, "title", v) : v \in TitleValues}
    \cup {With(Base, "_id", v) : v \in IdValues}
    \cup {[_id |-> S("1")], [title |-> S("X")]}
    \cup {With(Base, key, v) : key \in {"year", "Votes"}, v \in NumberValues}
    \cup {With(Base, "rating", v) : v \in RatingValues}
    \cup {With(Base, key, v) : key \in {"Director", "Actors", "genre"}, v \in MultiValues}
    \cup {With(Base, "Revenue (Millions)", v) : v \in RevenueValues}
    \cup {ScenarioDoc, ScenarioDocMillions, MalformedDoc}

RevenueDocs == {With(Base, "Revenue (Millions)", StrV(str)) : str \in RevenueStrings}

NormSources ==
    {<<d>> : d \in FieldDocs \cup RevenueDocs} \cup {<<d, Follower>> : d \in FieldDocs}

\* The page before the button, over a collection of the normalizer's inputs.
InitNorm ==
    /\ source \in NormSources
    /\ graph = EmptyGraph
    /\ pc = "page"
    /\ project_members = <<>>
    /\ target_film_title = <<>>
    /\ processed_count = 0
    /\ skipped_count = 0
    /\ total_docs_estimated = 0
    /\ films_cursor = <<>>
    /\ consumed = 0
    /\ batch = <<>>
    /\ status = NoMsg
    /\ constraint_warning = FALSE
    /\ constraints_created = 0
    /\ members_status = "none"
    /\ page_message = "none"
    /\ tx_calls = 0
    /\ submitted = <<>>
    /\ committed = <<>>
    /\ outcome = "none"
    /\ NotCalled

Next ==
    \/ ClickIntegrate
    \/ ClickWithoutTitle
    \/ CreateConstraints
    \/ Extract
    \/ ExtractFails
    \/ LoopIteration
    \/ WriteCommits
    \/ WriteRetries
    \/ WriteFails
    \/ LoopEnds
    \/ MembersAdded
    \/ MembersFail
    \/ MembersIgnored
    \/ Return

Spec == Init /\ [][Next]_vars

SpecNorm == InitNorm /\ [][Next]_vars

\* --------------------- create_relationship of app/queries/neo4j_queries.py
\* The names bound in the module's namespace: its imports and its functions.
ModuleNames ==
    {"List", "Dict", "Any", "Optional", "Session", "pd", "create_node", "find_nodes",
     "create_relationship", "find_shortest_path", "execute_cypher_query",
     "get_shortest_path_between_actors", "analyze_graph"}

\* [A-Z_]
UpperOrUnderscore ==
    {"A", "B", "C", "D", "E", "F", "G", "H", "I", "J", "K", "L", "M", "N", "O", "P",
     "Q", "R", "S", "T", "U", "V", "W", "X", "Y", "Z", "_"}

\* {1,50}
RelTypeMaxLen == 50

\* re.match(r'^[A-Z_]{1,50}$', rel_type): "$" also matches before a newline
\* that ends the string.
PatternMatches(str) ==
    LET body == IF str # <<>> /\ str[Len(str)] = "\n"
                THEN SubSeq(str, 1, Len(str) - 1) ELSE str
    IN /\ Len(body) \in 1..RelTypeMaxLen
       /\ \A k \in 1..Len(body) : body[k] \in UpperOrUnderscore

RelTypeChars == {"A", "_", "a", "\n"}
RelTypes == UNION {[1..n -> RelTypeChars] : n \in 0..MaxRelTypeLen}

\* A call of create_relationship from its first statement to its return or
\* raise.  The name re is looked up when the test is evaluated; session.run
\* either raises or yields the count of relationships created.
create_relationship ==
    /\ rel_pc = "idle"
    /\ IF "re" \notin ModuleNames
       THEN /\ rel_error' = "NameError"
            /\ rel_pc' = "raised"
            /\ UNCHANGED <<rel_sent, rel_result>>
       ELSE IF ~PatternMatches(rel_type)
       THEN /\ rel_error' = "ValueError"
            /\ rel_pc' = "raised"
            /\ UNCHANGED <<rel_sent, rel_result>>
       ELSE /\ rel_sent' = rel_sent + 1
            /\ \/ /\ \E count \in {0, 1} : rel_result' = Some(count > 0)
                  /\ rel_pc' = "returned"
                  /\ UNCHANGED rel_error
               \/ /\ rel_error' = "RuntimeError"
                  /\ rel_pc' = "raised"
                  /\ UNCHANGED rel_result
    /\ UNCHANGED rel_type
    /\ UNCHANGED mainvars

\* Before a call of create_relationship with some relationship type.
InitRel ==
    /\ source = <<>>
    /\ graph = EmptyGraph
    /\ pc = "page"
    /\ project_members = <<>>
    /\ target_film_title = <<>>
    /\ processed_count = 0
    /\ skipped_count = 0
    /\ total_docs_estimated = 0
    /\ films_cursor = <<>>
    /\ consumed = 0
    /\ batch = <<>>
    /\ status = NoMsg
    /\ constraint_warning = FALSE
    /\ constraints_created = 0
    /\ members_status = "none"
    /\ page_message = "none"
    /\ tx_calls = 0
    /\ submitted = <<>>
    /\ committed = <<>>
    /\ outcome = "none"
    /\ rel_type \in RelTypes
    /\ rel_pc = "idle"
    /\ rel_error = "none"
    /\ rel_sent = 0
    /\ rel_result = None

NextRel == create_relationship

SpecRel == InitRel /\ [][NextRel]_vars

\* ---------------------------------------------------- derived quantities
RECURSIVE Flatten(_)
Flatten(batches) == IF batches = <<>> THEN <<>> ELSE batches[1] \o Flatten(Tail(batches))

RECURSIVE ValidFilms(_)
\* The canonical records of the documents that normalization does not skip.
ValidFilms(docs) ==
    IF docs = <<>> THEN <<>>
    ELSE (IF Skips(docs[1]) THEN <<>> ELSE <<FilmData(docs[1])>>) \o ValidFilms(Tail(docs))

CeilDiv(a, b) == (a + b - 1) \div b

IsPrefix(p, s) == Len(p) <= Len(s) /\ SubSeq(s, 1, Len(p)) = p

\* sub occurs in s as a contiguous run.
Infix(sub, s) ==
    \E k \in 0..(Len(s) - Len(sub)) : SubSeq(s, k + 1, k + Len(sub)) = sub

RECURSIVE ApplyBatches(_, _)
\* The graph after one committed transaction per batch, in order.
ApplyBatches(g, batches) ==
    IF batches = <<>> THEN g
    ELSE CHOOSE r \in {ApplyBatches(g1, Tail(batches)) :
                          g1 \in {process_film_batch_specific(g, batches[1])}} : TRUE

LastSubmitted == submitted[Len(submitted)]

\* ------------------------------------------------------------------ claims

\* C1: when the import loop of a run ends with no failed batch, every record
\* that passed normalization was handed to the upsert in exactly one batch, in
\* source order, and no record is left in the in-flight buffer.
C1_AllValidSubmitted ==
    outcome = "completed" =>
        /\ batch = <<>>
        /\ Flatten(submitted) = ValidFilms(films_cursor)

\* C2: a completed loop over L normalized records has submitted ceil(L/B)
\* batches, all of size B except possibly the last, which is not empty.
C2_CeilBatches ==
    outcome = "completed" =>
        LET L == Len(ValidFilms(films_cursor))
        IN /\ Len(submitted) = CeilDiv(L, BatchSize)
           /\ \A j \in 1..Len(submitted) :
                 IF j < Len(submitted) THEN Len(submitted[j]) = BatchSize
                 ELSE Len(submitted[j]) \in 1..BatchSize

\* C3: at normal termination processed + skipped is the number of documents
\* read, processed the number of valid and skipped the number of invalid ones.
C3_SummaryCounts ==
    outcome = "completed" =>
        /\ processed_count + skipped_count = Len(films_cursor)
        /\ processed_count = Len(ValidFilms(films_cursor))
        /\ skipped_count = Len(films_cursor) - Len(ValidFilms(films_cursor))

\* C4: after a failed batch the page does not show the integration as
\* finished with success.
C4_FailureNotShownAsSuccess ==
    (pc = "page" /\ outcome = "batch_failed") => page_message # "success"

\* C5: from the step in which a batch fails until the run is over, no batch is
\* submitted, no document is taken from the cursor, and the graph and the
\* committed batches stay as they were.
C5_StopsAtFailedBatch ==
    [][outcome' = "batch_failed" =>
          /\ submitted' = submitted
          /\ consumed' = consumed
          /\ committed' = committed
          /\ graph' = graph]_vars

C5_Witness ==
    /\ pc = "page"
    /\ outcome = "batch_failed"
    /\ committed # <<>>
    /\ consumed < Len(films_cursor)
    /\ graph = ApplyBatches(EmptyGraph, committed)
    /\ graph # EmptyGraph

\* C6: an attempt of the batch transaction that does not commit leaves the
\* graph exactly as it was before the attempt, however many films of the
\* batch the query had merged when it failed.
C6_BatchAtomicity ==
    [][(pc = "write" /\ committed' = committed) => graph' = graph]_vars

C6_Witness ==
    /\ outcome = "batch_failed"
    /\ Len(LastSubmitted) >= 2
    /\ Partial(graph, LastSubmitted, 1) # graph
    /\ Partial(graph, LastSubmitted, 1) # process_film_batch_specific(graph, LastSubmitted)

\* C7: applying the upsert a second time to the batch in flight gives the graph
\* of the first application, and applying all batches of a completed import
\* again leaves the graph as it is.
C7_Idempotent ==
    /\ pc = "write" =>
          \A once \in {process_film_batch_specific(graph, batch)} :
              process_film_batch_specific(once, batch) = once
    /\ pc = "members" => ApplyBatches(graph, committed) = graph

C7_Witness ==
    /\ pc = "write"
    /\ Len(batch) >= 2
    /\ graph # EmptyGraph
    /\ process_film_batch_specific(graph, batch) # graph

\* C8: the graph never holds two Film nodes with one mongoId, two Actor,
\* Director or Genre nodes with one name, or two relationships of one type
\* between the same ordered pair of nodes.
C8_UniqueKeys ==
    /\ \A f1, f2 \in graph.films : f1.mongoId = f2.mongoId => f1.id = f2.id
    /\ \A label \in {"actors", "directors", "genres"} :
          \A n1, n2 \in graph[label] : n1.name = n2.name => n1.id = n2.id
    /\ \A r1, r2 \in graph.rels :
          (r1.type = r2.type /\ r1.src = r2.src /\ r1.dst = r2.dst) => r1.id = r2.id

\* A second import over a graph that already holds the films of the batch and
\* the edges of an earlier linker run.
C8_Witness ==
    /\ pc = "members"
    /\ Len(Flatten(committed)) >= 2
    /\ \E r \in graph.rels : r.type = "PART_OF_PROJECT_TEAM"
    /\ \E r \in graph.rels : r.type = "WORKED_WITH"

C10_ErrorNamesBatch ==
    outcome = "batch_failed" =>
        /\ status.kind = "error"
        /\ \E e \in Errors : Infix(<<e>>, status.text)
        /\ \/ Infix(NatToStr(Len(submitted)), status.text)
           \/ Infix(NatToStr(Len(submitted) - 1), status.text)

\* C11: when the import loop has ended, normally or on a failed batch, the
\* last status shown carries the number of records committed in this run.
C11_LastStatusShowsCommitted ==
    outcome \in {"completed", "batch_failed"} =>
        Infix(NatToStr(Len(Flatten(committed))), status.text)

\* The title or the identifier of the document is missing or an empty string.
MissingRequired(doc) ==
    \/ Get(doc, "title").t = "none"
    \/ Get(doc, "title") = StrV(<<>>)
    \/ Get(doc, "_id").t = "none"
    \/ Get(doc, "_id") = StrV(<<>>)

HasRequired(film) ==
    /\ film.title.t # "none"
    /\ film.title # StrV(<<>>)
    /\ film.mongoId # <<>>

\* C12: an iteration over a document without title or identifier adds one to
\* skipped_count, appends nothing, submits nothing and stays in the loop; and
\* no record of the buffer or of a submitted batch lacks title or identifier.
C12_SkipsMissingRequired ==
    /\ [](/\ \A k \in 1..Len(batch) : HasRequired(batch[k])
          /\ \A k \in 1..Len(Flatten(submitted)) : HasRequired(Flatten(submitted)[k]))
    /\ [][(/\ pc = "loop"
           /\ consumed' = consumed + 1
           /\ MissingRequired(films_cursor[consumed + 1]))
          => (/\ skipped_count' = skipped_count + 1
              /\ batch' = batch
              /\ submitted' = submitted
              /\ pc' = "loop"
              /\ outcome' = outcome)]_vars

C12_Witness ==
    /\ pc = "members"
    /\ Len(films_cursor) = 2
    /\ Get(films_cursor[1], "title") = StrV(<<>>)
    /\ skipped_count = 1
    /\ Len(Flatten(committed)) = 1

\* The documents consumed so far that the loop did not skip, in order.
KeptDocs == SelectSeq(SubSeq(films_cursor, 1, consumed), LAMBDA d : ~Skips(d))

\* The records appended to the buffer so far in this run, in order.
Appended ==
    IF pc = "write" \/ outcome = "batch_failed"
    THEN Flatten(submitted)
    ELSE Flatten(submitted) \o batch

\* An exception left the loop body while a document was being normalized.
NormalizationRaised == outcome = "unexpected_error" /\ consumed > 0

\* An optional "$", then digits, "," and ".", then an optional M or K of either case.
C13_Suffixes == {"M", "K", "m", "k"}

C13_Body(s) ==
    LET a == IF s # <<>> /\ s[1] = "$" THEN Tail(s) ELSE s
    IN IF a # <<>> /\ a[Len(a)] \in C13_Suffixes THEN SubSeq(a, 1, Len(a) - 1) ELSE a

C13_Factor(s) ==
    CASE s # <<>> /\ s[Len(s)] \in {"M", "m"} -> 1000000
      [] s # <<>> /\ s[Len(s)] \in {"K", "k"} -> 1000
      [] OTHER -> 1

C13_WellFormed(s) ==
    /\ C13_Body(s) # <<>>
    /\ \A k \in 1..Len(C13_Body(s)) : IsDigit(C13_Body(s)[k]) \/ C13_Body(s)[k] \in {",", "."}

\* The base without its "," separators times the factor; absent when the string
\* is malformed or the base is not a number.
C13_Expected(s) ==
    LET base == ParseFloat(Remove(C13_Body(s), ","))
    IN IF C13_WellFormed(s) /\ base # None
       THEN Some(Times(base[1], C13_Factor(s)))
       ELSE None

\* C13: no revenue string raises, and the record appended for a document with
\* a revenue string carries base times factor when the string is a currency
\* string and no revenue when it is malformed.
C13_RevenueOfCurrencyStrings ==
    /\ ~NormalizationRaised
    /\ Len(Appended) = Len(KeptDocs)
    /\ \A k \in 1..Len(KeptDocs) :
          LET raw == Get(KeptDocs[k], revenue_field_hardcoded)
          IN raw.t = "str" => Appended[k].revenue = C13_Expected(raw.s)

\* The title and the identifier of the document are non-empty strings.
C14_HasTitleAndId(doc) ==
    /\ Get(doc, "title").t = "str" /\ Get(doc, "title").s # <<>>
    /\ Get(doc, "_id").t = "str" /\ Get(doc, "_id").s # <<>>

\* The value is neither an integer nor the text of one.
C14_NotANumber(v) == v.t \in {"none", "list"} \/ (v.t = "str" /\ ParseInt(v.s) = None)

\* The record keeps the identity of the document and has every field that
\* cannot be converted absent or empty.
C14_Canonical(doc, film) ==
    /\ film.mongoId = Get(doc, "_id").s
    /\ film.title = Get(doc, "title")
    /\ C14_NotANumber(Get(doc, "year")) => film.year = None
    /\ C14_NotANumber(Get(doc, "Votes")) => film.votes = None
    /\ Get(doc, "rating").t # "str" => film.rating = None
    /\ Get(doc, "Director").t \notin {"str", "list"} =>
           film.allDirectors = <<>> /\ film.director = None
    /\ Get(doc, "Actors").t \notin {"str", "list"} => film.actors = <<>>
    /\ Get(doc, "genre").t \notin {"str", "list"} => film.genres = <<>>
    /\ \/ Get(doc, revenue_field_hardcoded).t \notin {"int", "str"}
       \/ RevenueConv(Get(doc, revenue_field_hardcoded)).exc # "none"
       => film.revenue = None

\* C14: an iteration over a document with a non-empty title and identifier,
\* whatever its optional fields, raises nothing and appends exactly one record
\* to the buffer, with each unconvertible field absent or empty.
C14_MalformedFieldKeepsRecord ==
    [][(/\ pc = "loop"
        /\ consumed' = consumed + 1
        /\ C14_HasTitleAndId(films_cursor[consumed + 1]))
       => (/\ ~NormalizationRaised'
           /\ skipped_count' = skipped_count
           /\ Len(Appended') = Len(Appended) + 1
           /\ SubSeq(Appended', 1, Len(Appended)) = Appended
           /\ C14_Canonical(films_cursor[consumed + 1], Appended'[Len(Appended')]))]_vars

C14_Witness ==
    /\ pc = "members"
    /\ films_cursor = <<MalformedDoc>>
    /\ Len(Flatten(committed)) = 1
    /\ Flatten(committed)[1].revenue = None
    /\ Flatten(committed)[1].year = None

\* The one rule of the multi-value fields: the trimmed non-empty elements of a
\* list, the trimmed non-empty parts of a comma-separated string, else nothing.
C15_Rule(v) ==
    CASE v.t = "list" -> StripNonEmpty(StrEach(v.l))
      [] v.t = "str"  -> StripNonEmpty(Split(v.s, ","))
      [] OTHER        -> <<>>

\* C15: in every appended record the directors, the actors and the genres are
\* each obtained from the document's value by the same rule for lists, strings
\* and other types.
C15_SameRuleForMultiValueFields ==
    /\ Len(Appended) = Len(KeptDocs)
    /\ \A k \in 1..Len(KeptDocs) :
          /\ Appended[k].allDirectors = C15_Rule(Get(KeptDocs[k], "Director"))
          /\ Appended[k].actors = C15_Rule(Get(KeptDocs[k], "Actors"))
          /\ Appended[k].genres = C15_Rule(Get(KeptDocs[k], "genre"))

\* The canonical record of the scenario, with the given revenue.
C16_IsScenarioRecord(film, revenue) ==
    /\ film.mongoId = <<"1">>
    /\ film.title = S("X")
    /\ film.year = Some(1999)
    /\ film.allDirectors = << <<"A">>, <<"B">> >>
    /\ film.director = Some(<<"A">>)
    /\ film.actors = << <<"C">> >>
    /\ film.genres = << <<"Drama">> >>
    /\ film.revenue = revenue

\* The first document of the cursor is doc and has been normalized.
C16_Normalized(doc) ==
    /\ films_cursor # <<>>
    /\ films_cursor[1] = doc
    /\ consumed >= 1

\* C16 as stated: the scenario record, with its revenue "$1.5M" under the key
\* Revenue, is normalized to the canonical record with revenue 1500000.0.
C16_ScenarioRevenueFromRevenueKey ==
    C16_Normalized(ScenarioDoc) =>
        /\ Appended # <<>>
        /\ C16_IsScenarioRecord(Appended[1], Some(Float(1500000, 0)))

\* C16 amended: the scenario record is normalized to the canonical record with
\* an absent revenue, its Revenue key being ignored; with the same string under
\* the key "Revenue (Millions)" the revenue is 1500000.0.
C16_ScenarioRevenueFromProjectedKey ==
    /\ C16_Normalized(ScenarioDoc) =>
          /\ Appended # <<>>
          /\ C16_IsScenarioRecord(Appended[1], None)
    /\ C16_Normalized(ScenarioDocMillions) =>
          /\ Appended # <<>>
          /\ C16_IsScenarioRecord(Appended[1], Some(Float(1500000, 0)))

C16_Witness ==
    /\ pc = "members"
    /\ films_cursor = <<ScenarioDocMillions>>
    /\ Len(Flatten(committed)) = 1
    /\ Flatten(committed)[1].revenue = Some(Float(1500000, 0))

\* The number of relationships of the type from a node named src of srcLabel to
\* the node dst.
C17_Edges(type, srcLabel, src, dst) ==
    Cardinality({r \in graph.rels :
                    /\ r.type = type
                    /\ r.src \in NamedIds(graph, srcLabel, src)
                    /\ r.dst = dst})

\* The film of the record has its Director nodes, DIRECTED and WORKED_WITH edges
\* and its Actor nodes and ACTED_IN edges.
C17_Upserted(fd) ==
    \E f \in graph.films :
        /\ f.mongoId = fd.mongoId
        /\ \A d \in 1..Len(fd.allDirectors) :
              fd.allDirectors[d] # <<>> =>
                 /\ Cardinality(NamedIds(graph, "directors", fd.allDirectors[d])) = 1
                 /\ C17_Edges("DIRECTED", "directors", fd.allDirectors[d], f.id) = 1
                 /\ \A a \in 1..Len(fd.actors) :
                       fd.actors[a] # <<>> =>
                          \A n \in NamedIds(graph, "actors", fd.actors[a]) :
                             C17_Edges("WORKED_WITH", "directors", fd.allDirectors[d], n) = 1
        /\ \A a \in 1..Len(fd.actors) :
              fd.actors[a] # <<>> =>
                 /\ Cardinality(NamedIds(graph, "actors", fd.actors[a])) = 1
                 /\ C17_Edges("ACTED_IN", "actors", fd.actors[a], f.id) = 1

\* C17: every film of a committed batch has one Director node and one DIRECTED
\* edge for each of its directors, one WORKED_WITH edge from each director to
\* each of its actors, and one Actor node and one ACTED_IN edge for each actor,
\* whether or not its other list is empty.
C17_DirectorsAndActorsUpserted ==
    \A k \in 1..Len(Flatten(committed)) : C17_Upserted(Flatten(committed)[k])

C17_Witness ==
    /\ \E k \in 1..Len(Flatten(committed)) :
          /\ Flatten(committed)[k].actors = <<>>
          /\ Len(Flatten(committed)[k].allDirectors) = 2
    /\ \E k \in 1..Len(Flatten(committed)) :
          /\ Flatten(committed)[k].allDirectors = <<>>
          /\ Flatten(committed)[k].actors # <<>>
    /\ \E k \in 1..Len(Flatten(committed)) :
          /\ Len(Flatten(committed)[k].allDirectors) = 2
          /\ Flatten(committed)[k].actors # <<>>

\* C18: a batch is submitted only after all four constraint statements of the
\* run have been run.
C18_AllConstraintsAttemptedFirst ==
    submitted # <<>> => Attempted(constraints_created) = Len(Constraints)

\* C19: the step of the constraints goes on to the extraction whether or not a
\* statement failed, changes nothing but the warning, and warns exactly when a
\* statement failed; the run is still under way while it extracts and writes.
C19_ConstraintFailureNotFatal ==
    /\ [][pc = "constraints" =>
            /\ pc' = "extract"
            /\ constraint_warning' = (constraints_created' < Len(Constraints))
            /\ UNCHANGED <<source, graph, outcome, status, batch, submitted, committed,
                           films_cursor, consumed, processed_count, skipped_count>>]_vars
    /\ [](pc \in {"extract", "loop", "write"} => outcome = "running")

C19_Witness ==
    /\ constraint_warning
    /\ constraints_created = 0
    /\ outcome = "completed"
    /\ Len(committed) = 2

\* The PART_OF_PROJECT_TEAM relationships of a graph.
C20_TeamEdges(g) == {r \in g.rels : r.type = "PART_OF_PROJECT_TEAM"}

C20_NoFilmTitled(g, film_title) ==
    \A f \in g.films : f.props.title # StrV(film_title)

\* C20: when no Film node has the target title, the linker query leaves the
\* graph as it is, and the step that commits it ends with the status complete,
\* no PART_OF_PROJECT_TEAM edge created and no error shown.
C20_UnmatchedTitleLinksNothing ==
    /\ [](pc = "members" /\ LinkerDue /\ C20_NoFilmTitled(graph, target_film_title)
            => add_project_members_to_film(graph, project_members, target_film_title) = graph)
    /\ [][(/\ pc = "members"
           /\ LinkerDue
           /\ C20_NoFilmTitled(graph, target_film_title)
           /\ members_status' = "complete")
          => (/\ C20_TeamEdges(graph') = C20_TeamEdges(graph)
              /\ outcome' = outcome
              /\ status' = status)]_vars

C20_Witness ==
    /\ members_status = "complete"
    /\ target_film_title = <<"U">>
    /\ project_members # <<>>
    /\ graph.films # {}
    /\ C20_TeamEdges(graph) = {}

\* The Film nodes that PART_OF_PROJECT_TEAM edges from the members lead to.
C21_TeamTargets ==
    {r.dst : r \in {x \in C20_TeamEdges(graph) :
                       \E k \in 1..Len(project_members) :
                           x.src \in NamedIds(graph, "actors", project_members[k])}}

\* C21: after the linker has committed with a title that some Film node
\* carries, the PART_OF_PROJECT_TEAM edges of the members lead to exactly one
\* Film node, also when several Film nodes carry the title.
C21_OneTargetFilm ==
    (/\ members_status = "complete"
     /\ ~C20_NoFilmTitled(graph, target_film_title))
    => Cardinality(C21_TeamTargets) = 1

\* C22: the step in which the linker transaction fails shows the error in the
\* linker's own status and leaves the graph, the counts, the committed batches
\* and the status of the import as they were.
C22_LinkerFailureIsolated ==
    [][(pc = "members" /\ members_status' = "error")
       => (/\ graph' = graph
           /\ processed_count' = processed_count
           /\ skipped_count' = skipped_count
           /\ committed' = committed
           /\ status' = status
           /\ outcome' = outcome)]_vars

C22_Witness ==
    /\ members_status = "error"
    /\ outcome = "completed"
    /\ committed # <<>>
    /\ ~C20_NoFilmTitled(graph, target_film_title)
    /\ C20_TeamEdges(graph) = {}
    /\ status = FinalMsg(processed_count, skipped_count)

\* C23: processed_count is the number of records of the batches committed in
\* this run; within a run it changes only in the step that commits a batch,
\* and the step in which a batch fails leaves it as it was.
C23_ProcessedCountIsCommitted ==
    /\ [](processed_count = Len(Flatten(committed)))
    /\ [][(processed_count' # processed_count /\ pc # "page")
          => (/\ pc = "write"
              /\ committed' = Append(committed, batch)
              /\ graph' = process_film_batch_specific(graph, batch)
              /\ processed_count' = processed_count + Len(batch))]_vars
    /\ [][(pc = "write" /\ outcome' = "batch_failed")
          => processed_count' = processed_count]_vars

C23_Witness ==
    /\ outcome = "batch_failed"
    /\ Len(committed) = 1
    /\ Len(submitted) = 2
    /\ processed_count = BatchSize

\* The whole string is one to fifty characters of A-Z and "_".
C24_MatchesPattern(str) ==
    /\ Len(str) \in 1..50
    /\ \A k \in 1..Len(str) : str[k] \in UpperOrUnderscore

\* C24: a call of create_relationship with a type that does not match the
\* pattern has raised ValueError with no query sent, and a call with a type
\* that matches has sent the query and returned whether a relationship was
\* created, unless the session raised.
C24_RelationshipTypeValidated ==
    rel_pc # "idle" =>
        IF C24_MatchesPattern(rel_type)
        THEN /\ rel_sent = 1
             /\ \/ rel_pc = "returned" /\ rel_result \in {Some(TRUE), Some(FALSE)}
                \/ rel_pc = "raised" /\ rel_error = "RuntimeError"
        ELSE /\ rel_pc = "raised"
             /\ rel_error = "ValueError"
             /\ rel_sent = 0

\* C25: the linker step of a run is taken only when the loop has ended
\* normally, every submitted batch is committed and the final summary is
\* shown; in a run whose batch failed the linker step is never taken.
C25_LinkerOnlyAfterNormalEnd ==
    /\ [][(members_status' # members_status /\ pc # "page")
          => (/\ pc = "members"
              /\ outcome = "completed"
              /\ committed = submitted
              /\ status = FinalMsg(processed_count, skipped_count))]_vars
    /\ [](outcome = "batch_failed" => members_status = "none" /\ pc # "members")

C25_Witness ==
    /\ members_status = "complete"
    /\ Len(committed) = 2
    /\ C20_TeamEdges(graph) # {}

\* C26: when the cursor yielded total_docs_estimated documents and the last
\* one was not skipped, a run that ended without a failed batch has an empty
\* buffer and processed_count is the number of records that passed validation.
C26_FinalFlushWhenLastValid ==
    (/\ outcome = "completed"
     /\ films_cursor # <<>>
     /\ Len(films_cursor) = total_docs_estimated
     /\ ~Skips(films_cursor[Len(films_cursor)]))
    => (/\ batch = <<>>
        /\ processed_count = Len(ValidFilms(films_cursor)))

C26_Witness ==
    /\ outcome = "completed"
    /\ films_cursor # <<>>
    /\ committed # <<>>
    /\ Len(films_cursor) = total_docs_estimated
    /\ ~Skips(films_cursor[Len(films_cursor)])
    /\ skipped_count >= 1
    /\ processed_count = BatchSize + 1
    /\ Len(committed[Len(committed)]) < BatchSize

\* C27: between two iterations of the loop every document consumed so far is
\* counted as processed or skipped or is in the buffer, and the buffer holds
\* fewer than batch_size records.
C27_LoopAccounting ==
    pc = "loop" =>
        /\ processed_count + skipped_count + Len(batch) = consumed
        /\ Len(batch) < BatchSize

C27_Witness ==
    /\ pc = "loop"
    /\ consumed = 2 * BatchSize
    /\ skipped_count = 1
    /\ processed_count = BatchSize
    /\ Len(batch) = BatchSize - 1

\* C28: the step that commits the linker with a title that no Film node
\* carries leaves the whole graph as it was: no Actor node is made for a member.
C28_UnmatchedTitleCreatesNoActor ==
    [][(/\ pc = "members"
        /\ LinkerDue
        /\ C20_NoFilmTitled(graph, target_film_title)
        /\ members_status' = "complete")
       => (/\ graph'.actors = graph.actors
           /\ graph' = graph)]_vars

C28_Witness ==
    /\ members_status = "complete"
    /\ target_film_title = <<"U">>
    /\ \E k \in 1..Len(project_members) :
          NamedIds(graph, "actors", project_members[k]) = {}
    /\ graph.actors # {}

\* The record is the last one of the committed batches with its mongoId.
C29_IsLatest(k) ==
    \A j \in (k + 1)..Len(Flatten(committed)) :
        Flatten(committed)[j].mongoId # Flatten(committed)[k].mongoId

\* C29: no step removes a node or a relationship of the graph, and the Film
\* node of every committed record holds the scalar properties of the latest
\* committed record with its mongoId.
C29_OnlyAddsLastWriteWins ==
    /\ [][/\ {f.id : f \in graph.films} \subseteq {f.id : f \in graph'.films}
          /\ graph.actors \subseteq graph'.actors
          /\ graph.directors \subseteq graph'.directors
          /\ graph.genres \subseteq graph'.genres
          /\ graph.rels \subseteq graph'.rels]_vars
    /\ [](\A k \in 1..Len(Flatten(committed)) :
             C29_IsLatest(k) =>
                \E f \in graph.films :
                    /\ f.mongoId = Flatten(committed)[k].mongoId
                    /\ f.props = FilmProps(Flatten(committed)[k]))

\* A film imported again without directors still has its DIRECTED and
\* WORKED_WITH edges and shows the later title.
C29_Witness ==
    \E k \in 1..Len(Flatten(committed)) :
        /\ C29_IsLatest(k)
        /\ Flatten(committed)[k].allDirectors = <<>>
        /\ \E f \in graph.films :
              /\ f.mongoId = Flatten(committed)[k].mongoId
              /\ f.props.title = S("Y")
              /\ f.props.director = None
              /\ \E r \in graph.rels : r.type = "DIRECTED" /\ r.dst = f.id
        /\ \E r \in graph.rels :
              /\ r.type = "WORKED_WITH"
              /\ r.dst \in NamedIds(graph, "actors", <<"C">>)

\* C30: no submitted batch is empty and the transaction function never runs on
\* an empty buffer; a batch is submitted only in the step that appended a
\* record to it; and a run whose cursor yields no document that passes
\* validation submits nothing and opens no transaction.
C30_NoEmptyBatch ==
    /\ [](/\ \A k \in 1..Len(submitted) : submitted[k] # <<>>
          /\ pc = "write" => batch # <<>>
          /\ ValidFilms(films_cursor) = <<>> => submitted = <<>> /\ tx_calls = 0)
    /\ [][(submitted' # submitted /\ pc # "page")
          => (/\ pc = "loop"
              /\ submitted' = Append(submitted,
                                     Append(batch, FilmData(films_cursor[consumed + 1]))))]_vars

C30_Witness ==
    /\ outcome = "completed"
    /\ Len(films_cursor) >= 2
    /\ skipped_count = Len(films_cursor)
    /\ submitted = <<>>
    /\ tx_calls = 0
    /\ graph = EmptyGraph

====
